---- MODULE Spec2Model ----
(***************************************************************************)
(* Model of the two orchestration scripts of the repository:               *)
(*   Program A  src/cloudflare_tunnel.py  (tunnel provisioning)            *)
(*   Program B  src/run_prompts.py        (batch prompt runner)            *)
(*                                                                         *)
(* Texts are sequences of characters over {" ", "a"}; a JSON object is a   *)
(* record whose optional keys carry an "absent" marker; numbers with a     *)
(* fractional part (temperature) are counted in tenths.                    *)
(***************************************************************************)
EXTENDS Integers, Sequences, FiniteSets, TLC

VARIABLES
    pc,            \* Program B: control location of main / health_check
    prompts_json,  \* Program B: the PROMPTS_JSON document (or MissingEnv)
    prompts,       \* Program B: value returned by load_prompts_from_json
    max_retries,   \* OllamaClient.max_retries
    hc_i,          \* health_check: loop index i of range(max_retries)
    hc_wait,       \* health_check: last duration passed to time.sleep (0: none)
    hc_requests,   \* health_check: status requests issued so far
    hc_last,       \* health_check: how the most recent status request ended ("none": no request yet)
    hc_result,     \* health_check: "running", "true" or "false"
    idx,           \* main: enumerate index i of the record being processed (1-based)
    results,       \* main: the results list
    log,           \* main: generate requests sent and inter-record sleeps, in order
    outstanding,   \* generate requests sent and not yet answered
    saved,         \* save_results: returned (json_file, txt_file, summary_file), TRUE = a path
    writes,        \* save_results: the artifact writes attempted so far and whether each succeeded
    exit_code,     \* Program B: value returned by main (-1: not returned)
    a_pc,          \* Program A: control location of main
    a_env,         \* Program A: CF_TOKEN set, GITHUB_OUTPUT set, stdout of the create command
    a_created,     \* Program A: number of tunnels the external create command has created
    a_tunnel_id,   \* Program A: main's tunnel_id (0: None)
    a_process,     \* Program A: "none", "alive" or "exited"
    a_url,         \* Program A: main's tunnel_url (TRUE: a URL was resolved)
    a_files,       \* Program A: files written so far
    a_cleanups,    \* Program A: tunnel ids passed to cleanup_tunnel, in order
    a_exit         \* Program A: value returned by main (-1: not returned)

bVars == <<pc, prompts_json, prompts, idx, results, log, outstanding, saved, writes, exit_code>>
otherVars == <<prompts_json, prompts, idx, results, log, outstanding, saved, writes, exit_code>>
hcVars == <<max_retries, hc_i, hc_wait, hc_requests, hc_last, hc_result>>
aVars == <<a_pc, a_env, a_created, a_tunnel_id, a_process, a_url, a_files, a_cleanups, a_exit>>
vars == <<bVars, hcVars, aVars>>

----------------------------------------------------------------------------
(* Bounds *)

MaxRecords == 2      \* longest list of records in a JSON document
MaxWrapped == 1      \* longest list under the "prompts" key of an object
MaxPromptKeys == 2   \* most "prompt_*" keys in an object
MaxRetries == 6      \* largest attempt limit given to a stand-alone health_check
MaxLines == 2        \* most lines in the stdout of the tunnel-creation command

(* Program constants *)

MainMaxRetries == 15     \* OllamaClient(max_retries=15)
DefaultTemperature == 7  \* TEMPERATURE default "0.7", in tenths
DefaultMaxTokens == 1024 \* prompt_config.get("max_tokens", 1024)
DefaultDelay == 1        \* prompt_config.get("delay", 1)
BackoffUnit == 5         \* wait_time = 5 * (i + 1) and time.sleep(5)

ModelTag == "huihui_ai/deepseek-r1-abliterated:1.5b"

----------------------------------------------------------------------------
(* Texts and str.strip() *)

AbsentText == <<"<absent>">>   \* marks a key that the object does not have

IsSpace(c) == c = " "

RECURSIVE LStrip(_)
LStrip(t) == IF t # <<>> /\ IsSpace(Head(t)) THEN LStrip(Tail(t)) ELSE t

RECURSIVE RStrip(_)
RStrip(t) ==
    IF t # <<>> /\ IsSpace(t[Len(t)]) THEN RStrip(SubSeq(t, 1, Len(t) - 1)) ELSE t

Strip(t) == RStrip(LStrip(t))

PromptTexts == { <<>>, <<" ">>, <<" ", "a", " ">> }

----------------------------------------------------------------------------
(* Per-record configuration: the value of a record's "config" key *)

ReservedKeys == {"prompt", "id", "temperature", "max_tokens"}

Config(isdict, keys, t, m, d, dnum) ==
    [isdict |-> isdict, keys |-> keys, temperature |-> t, max_tokens |-> m,
     delay |-> d, delay_isnum |-> dnum]

EmptyConfig == Config(TRUE, {}, 0, 0, 0, TRUE)                  \* {} (also: key absent)
CfgDelay0 == Config(TRUE, {"delay"}, 0, 0, 0, TRUE)             \* {"delay": 0}
CfgDelayStr == Config(TRUE, {"delay"}, 0, 0, 0, FALSE)          \* {"delay": "2"}
CfgFull == Config(TRUE, {"temperature", "max_tokens", "delay", "top_p"}, 2, 5, 2, TRUE)
CfgNull == Config(FALSE, {}, 0, 0, 0, TRUE)                     \* "config": null

(* Identifiers: an integer or the name of a "prompt_<n>" key *)
IdInt(n) == [tag |-> "int", n |-> n]
IdKey(n) == [tag |-> "prompt_", n |-> n]
AbsentId == [tag |-> "absent", n |-> 0]

(* One element of the prompts list *)
Rec(isdict, prompt, content, id, config) ==
    [isdict |-> isdict, prompt |-> prompt, content |-> content, id |-> id,
     config |-> config]

Records ==
    { Rec(TRUE, t, AbsentText, AbsentId, EmptyConfig) : t \in PromptTexts }
    \cup { Rec(TRUE, <<"a">>, AbsentText, IdInt(7), c) : c \in {CfgDelay0, CfgDelayStr, CfgFull, CfgNull} }
    \cup { Rec(TRUE, AbsentText, <<"a">>, AbsentId, EmptyConfig) }   \* {"content": "a"}
    \cup { Rec(FALSE, <<"a">>, AbsentText, AbsentId, EmptyConfig) }  \* a bare "a" in the list

SeqsUpTo(S, n) == UNION { [1..k -> S] : k \in 0..n }

----------------------------------------------------------------------------
(* JSON documents handed to load_prompts_from_json *)

Doc(type, items, has_prompts, prompt, pvalues, text) ==
    [type |-> type, items |-> items, has_prompts |-> has_prompts,
     prompt |-> prompt, pvalues |-> pvalues, text |-> text]

ListDocs == { Doc("list", s, FALSE, AbsentText, <<>>, <<>>) : s \in SeqsUpTo(Records, MaxRecords) }

(* An object: "prompts" (a list) if has_prompts, "prompt" unless absent,   *)
(* and the values of its keys prompt_1 .. prompt_n in document order.      *)
(* With "prompts" the other keys are either all absent or all present;   *)
(* without it every combination of "prompt" and prompt_* keys is drawn.  *)
DictDocs ==
    { Doc("dict", s, TRUE, o[1], o[2], <<>>) :
        s \in SeqsUpTo(Records, MaxWrapped),
        o \in { <<AbsentText, <<>>>>, <<(<<"a">>), <<(<<"a">>)>>>> } }
    \cup { Doc("dict", <<>>, FALSE, p, pv, <<>>) :
        p \in {AbsentText, <<>>, <<"a">>},
        pv \in SeqsUpTo({<<>>, <<"a">>}, MaxPromptKeys) }

StrDocs == { Doc("str", <<>>, FALSE, AbsentText, <<>>, t) : t \in PromptTexts }

OtherDocs == { Doc(ty, <<>>, FALSE, AbsentText, <<>>, <<>>) : ty \in {"num", "bool", "null", "malformed"} }

MissingEnv == Doc("unset", <<>>, FALSE, AbsentText, <<>>, <<>>)

Docs == ListDocs \cup DictDocs \cup StrDocs \cup OtherDocs

----------------------------------------------------------------------------
(* load_prompts_from_json *)

Raised == [raised |-> TRUE, value |-> <<>>]
Returned(v) == [raised |-> FALSE, value |-> v]

load_prompts_from_json_swapped(d) ==
    IF d.type = "malformed" THEN Raised
    ELSE IF d.type = "list" THEN Returned(d.items)
    ELSE IF d.type = "dict" /\ d.prompt # AbsentText
        THEN Returned(<< Rec(TRUE, d.prompt, AbsentText, AbsentId, EmptyConfig) >>)
    ELSE IF d.type = "dict" /\ d.has_prompts THEN Returned(d.items)
    ELSE IF d.type = "dict"
        THEN Returned([k \in 1..Len(d.pvalues) |->
                        Rec(TRUE, d.pvalues[k], AbsentText, IdKey(k), EmptyConfig)])
    ELSE IF d.type = "str"
        THEN Returned(<< Rec(TRUE, d.text, AbsentText, IdInt(1), EmptyConfig) >>)
    ELSE Raised

load_prompts_from_json(d) ==
    IF d.type = "malformed" THEN Raised                       \* json.loads raises
    ELSE IF d.type = "list" THEN Returned(d.items)
    ELSE IF d.type = "dict" /\ d.has_prompts THEN Returned(d.items)
    ELSE IF d.type = "dict" /\ d.prompt # AbsentText
        THEN Returned(<< Rec(TRUE, d.prompt, AbsentText, AbsentId, EmptyConfig) >>)
    ELSE IF d.type = "dict"
        THEN Returned([k \in 1..Len(d.pvalues) |->
                        Rec(TRUE, d.pvalues[k], AbsentText, IdKey(k), EmptyConfig)])
    ELSE IF d.type = "str"
        THEN Returned(<< Rec(TRUE, d.text, AbsentText, IdInt(1), EmptyConfig) >>)
    ELSE Raised                                               \* ValueError

----------------------------------------------------------------------------
(* OllamaClient.health_check *)

AttemptLimit_plus1(m) == m + 1

(* for i in range(self.max_retries) *)
AttemptLimit(m) == m

(* if i < self.max_retries - 1 *)
NotLastAttempt == hc_i < max_retries - 1

(* requests.get(.../api/tags) of attempt hc_i + 1 is issued and ends as `outcome` *)
StatusRequest(outcome) ==
    /\ hc_requests' = hc_requests + 1
    /\ hc_last' = outcome

(* the outcomes in which the service answered with status code 200 *)
Status200 == {"ok", "undecodable"}

InHealthLoop ==
    /\ pc = "health"
    /\ hc_result = "running"
    /\ hc_i < AttemptLimit(max_retries)

HcReturn(r) ==
    /\ hc_result' = r
    /\ pc' = "hc_returned"

(* except Exception: log, sleep 5 unless this was the last attempt *)
HcGenericHandler ==
    /\ hc_wait' = IF NotLastAttempt THEN BackoffUnit ELSE 0
    /\ hc_i' = hc_i + 1
    /\ UNCHANGED <<hc_result, pc>>

(* status 200 and response.json() gives an object with a list of models *)
HcReady ==
    /\ InHealthLoop
    /\ StatusRequest("ok")
    /\ HcReturn("true")
    /\ UNCHANGED <<max_retries, hc_i, hc_wait>>
    /\ UNCHANGED <<otherVars, aVars>>

(* status 200 but response.json() or the model listing raises *)
HcUndecodable ==
    /\ InHealthLoop
    /\ StatusRequest("undecodable")
    /\ HcGenericHandler
    /\ UNCHANGED max_retries
    /\ UNCHANGED <<otherVars, aVars>>

(* a status other than 200: no handler runs, the loop goes on at once *)
HcNot200 ==
    /\ InHealthLoop
    /\ StatusRequest("not200")
    /\ hc_wait' = 0
    /\ hc_i' = hc_i + 1
    /\ UNCHANGED <<max_retries, hc_result, pc>>
    /\ UNCHANGED <<otherVars, aVars>>

(* requests.exceptions.ConnectionError *)
HcConnectionError ==
    /\ InHealthLoop
    /\ StatusRequest("connection_error")
    /\ IF NotLastAttempt
         THEN /\ hc_wait' = BackoffUnit * (hc_i + 1)
              /\ hc_i' = hc_i + 1
              /\ UNCHANGED <<hc_result, pc>>
         ELSE /\ HcReturn("false")
              /\ UNCHANGED <<hc_i, hc_wait>>
    /\ UNCHANGED max_retries
    /\ UNCHANGED <<otherVars, aVars>>

(* any other exception of requests.get (timeout, ...) *)
HcOtherException ==
    /\ InHealthLoop
    /\ StatusRequest("exception")
    /\ HcGenericHandler
    /\ UNCHANGED max_retries
    /\ UNCHANGED <<otherVars, aVars>>

(* the for loop ran out *)
HcExhausted ==
    /\ pc = "health"
    /\ hc_result = "running"
    /\ ~ (hc_i < AttemptLimit(max_retries))
    /\ HcReturn("false")
    /\ UNCHANGED <<max_retries, hc_i, hc_wait, hc_requests, hc_last>>
    /\ UNCHANGED <<otherVars, aVars>>

----------------------------------------------------------------------------
(* Values shared by the initial states *)

NoSaved == <<FALSE, FALSE, FALSE>>

IdleA ==
    /\ a_pc = "idle"
    /\ a_env = [token |-> FALSE, github_output |-> FALSE, stdout |-> <<>>]
    /\ a_created = 0
    /\ a_tunnel_id = 0
    /\ a_process = "none"
    /\ a_url = FALSE
    /\ a_files = {}
    /\ a_cleanups = <<>>
    /\ a_exit = -1

IdleB ==
    /\ prompts_json = MissingEnv
    /\ prompts = <<>>
    /\ idx = 0
    /\ results = <<>>
    /\ log = <<>>
    /\ outstanding = 0
    /\ saved = NoSaved
    /\ writes = <<>>
    /\ exit_code = -1

FreshHealthCheck ==
    /\ hc_i = 0
    /\ hc_wait = 0
    /\ hc_requests = 0
    /\ hc_last = "none"
    /\ hc_result = "running"

(* A stand-alone OllamaClient(max_retries = M).health_check() *)
InitH ==
    /\ pc = "health"
    /\ max_retries \in 0..MaxRetries
    /\ FreshHealthCheck
    /\ IdleB
    /\ IdleA

NextH ==
    \/ HcReady
    \/ HcUndecodable
    \/ HcNot200
    \/ HcConnectionError
    \/ HcOtherException
    \/ HcExhausted

SpecH == InitH /\ [][NextH]_vars

----------------------------------------------------------------------------
(* Program B: main of run_prompts.py *)

(* prompt_data.get("prompt", prompt_data.get("content", "")), or str(prompt_data) *)
PromptText(rec) ==
    IF ~ rec.isdict THEN rec.prompt
    ELSE IF rec.prompt # AbsentText THEN rec.prompt
    ELSE IF rec.content # AbsentText THEN rec.content
    ELSE <<>>

(* prompt_data.get("id", i) *)
PromptId(rec, i) == IF rec.isdict /\ rec.id # AbsentId THEN rec.id ELSE IdInt(i)

(* if not prompt_text.strip(): continue *)
IsSkipped(rec) == Strip(PromptText(rec)) = <<>>

ResolvedTemperature(cfg) ==
    IF "temperature" \in cfg.keys THEN cfg.temperature ELSE DefaultTemperature

ResolvedMaxTokens(cfg) ==
    IF "max_tokens" \in cfg.keys THEN cfg.max_tokens ELSE DefaultMaxTokens

ResolvedDelay(cfg) == IF "delay" \in cfg.keys THEN cfg.delay ELSE DefaultDelay

(* the keys of gen_kwargs beyond generate's named parameters *)
ExtraKwargs(cfg) == {}

(* OllamaClient.generate: the payload posted to /api/generate *)
generate(model, prompt, temperature, max_tokens, kwargs) ==
    [model |-> model, prompt |-> prompt, temperature |-> temperature,
     max_tokens |-> max_tokens, stream |-> FALSE, extra |-> kwargs]

NoPayload == generate("", <<>>, 0, 0, {})

RequestEvent(i, rec) ==
    [ev |-> "request", i |-> i, d |-> 0,
     payload |-> generate(ModelTag, PromptText(rec),
                          ResolvedTemperature(rec.config),
                          ResolvedMaxTokens(rec.config),
                          ExtraKwargs(rec.config))]

SleepEvent(i, d) == [ev |-> "sleep", i |-> i, d |-> d, payload |-> NoPayload]

SuccessEntry(i, rec) ==
    [i |-> i, id |-> PromptId(rec, i), prompt |-> PromptText(rec),
     temperature |-> ResolvedTemperature(rec.config), success |-> TRUE, error |-> ""]

(* the entry appended by the except branch of the loop body *)
FailureEntry(i, rec, e) ==
    [i |-> i, id |-> PromptId(rec, i), prompt |-> PromptText(rec),
     temperature |-> -1, success |-> FALSE, error |-> e]

GenerateErrors == {"Timeout", "HTTPError", "ConnectionError"}

(* What a successful request returns: an object with a response text, an   *)
(* object whose "response" is not a string, or JSON that is not an object. *)
ResponseBodies == {"text", "nonstr", "not_object"}

NextRecord_again(i) == i

(* for i, prompt_data in enumerate(prompts, 1) *)
NextRecord(i) == i + 1

CurrentRecord == prompts[idx]

InLoop == pc = "loop" /\ idx <= Len(prompts)

(* the rest of the loop body once generate has returned `body` *)
AfterResponse(i, rec, body) ==
    LET cfg == rec.config
        withEntry == Append(results, SuccessEntry(i, rec))
    IN  IF body = "not_object"
          THEN \* response.get raises while the result is built
               [results |-> Append(results, FailureEntry(i, rec, "AttributeError")), log |-> log]
        ELSE IF body = "nonstr"
          THEN \* response["response"][:150] raises after results.append
               [results |-> Append(withEntry, FailureEntry(i, rec, "TypeError")), log |-> log]
        ELSE IF "delay" \in cfg.keys /\ ~ cfg.delay_isnum
          THEN \* delay > 0 raises after results.append
               [results |-> Append(withEntry, FailureEntry(i, rec, "TypeError")), log |-> log]
        ELSE IF ResolvedDelay(cfg) > 0
          THEN [results |-> withEntry, log |-> Append(log, SleepEvent(i, ResolvedDelay(cfg)))]
        ELSE [results |-> withEntry, log |-> log]

(* if not prompts_json: return 1 *)
MainNoJson ==
    /\ pc = "start"
    /\ prompts_json = MissingEnv
    /\ pc' = "done"
    /\ exit_code' = 1
    /\ UNCHANGED <<prompts_json, prompts, idx, results, log, outstanding, saved, writes>>
    /\ UNCHANGED hcVars
    /\ UNCHANGED aVars

(* load_prompts_from_json raises: the outer except returns 1 *)
MainLoadRaises ==
    /\ pc = "start"
    /\ prompts_json # MissingEnv
    /\ load_prompts_from_json(prompts_json).raised
    /\ pc' = "done"
    /\ exit_code' = 1
    /\ UNCHANGED <<prompts_json, prompts, idx, results, log, outstanding, saved, writes>>
    /\ UNCHANGED hcVars
    /\ UNCHANGED aVars

(* prompts = load_prompts_from_json(...); client = OllamaClient(max_retries=15) *)
MainLoad ==
    /\ pc = "start"
    /\ prompts_json # MissingEnv
    /\ ~ load_prompts_from_json(prompts_json).raised
    /\ prompts' = load_prompts_from_json(prompts_json).value
    /\ max_retries' = MainMaxRetries
    /\ pc' = "health"
    /\ UNCHANGED <<prompts_json, idx, results, log, outstanding, saved, writes, exit_code>>
    /\ UNCHANGED <<hc_i, hc_wait, hc_requests, hc_last, hc_result>>
    /\ UNCHANGED aVars

(* OllamaClient.__init__ drops what health_check returned; then            *)
(* client.list_models(), whose outcome is only logged; results = []        *)
ClientConstructed ==
    /\ pc = "hc_returned"
    /\ pc' = "loop"
    /\ idx' = 1
    /\ results' = <<>>
    /\ hc_i' = 0
    /\ hc_wait' = 0
    /\ hc_requests' = 0
    /\ hc_last' = "none"
    /\ UNCHANGED <<prompts_json, prompts, log, outstanding, saved, writes, exit_code>>
    /\ UNCHANGED <<max_retries, hc_result>>
    /\ UNCHANGED aVars

(* an empty or whitespace-only prompt: warning, continue *)
LoopSkip ==
    /\ InLoop
    /\ IsSkipped(CurrentRecord)
    /\ idx' = NextRecord(idx)
    /\ UNCHANGED <<pc, prompts_json, prompts, results, log, outstanding, saved, writes, exit_code>>
    /\ UNCHANGED hcVars
    /\ UNCHANGED aVars

(* prompt_config is not an object: prompt_config.get raises for gen_kwargs *)
LoopConfigError ==
    /\ InLoop
    /\ ~ IsSkipped(CurrentRecord)
    /\ ~ CurrentRecord.config.isdict
    /\ results' = Append(results, FailureEntry(idx, CurrentRecord, "AttributeError"))
    /\ idx' = NextRecord(idx)
    /\ UNCHANGED <<pc, prompts_json, prompts, log, outstanding, saved, writes, exit_code>>
    /\ UNCHANGED hcVars
    /\ UNCHANGED aVars

(* response = client.generate(...) with gen_kwargs: the request goes out *)
SendGenerate ==
    /\ InLoop
    /\ ~ IsSkipped(CurrentRecord)
    /\ CurrentRecord.config.isdict
    /\ log' = Append(log, RequestEvent(idx, CurrentRecord))
    /\ outstanding' = outstanding + 1
    /\ pc' = "in_flight"
    /\ UNCHANGED <<prompts_json, prompts, idx, results, saved, writes, exit_code>>
    /\ UNCHANGED hcVars
    /\ UNCHANGED aVars

(* generate raises (timeout, raise_for_status, transport error) *)
GenerateRaises ==
    /\ pc = "in_flight"
    /\ \E e \in GenerateErrors :
          results' = Append(results, FailureEntry(idx, CurrentRecord, e))
    /\ outstanding' = outstanding - 1
    /\ idx' = NextRecord(idx)
    /\ pc' = "loop"
    /\ UNCHANGED <<prompts_json, prompts, log, saved, writes, exit_code>>
    /\ UNCHANGED hcVars
    /\ UNCHANGED aVars

(* generate returns response.json(); the rest of the loop body runs *)
GenerateReturns ==
    /\ pc = "in_flight"
    /\ \E body \in ResponseBodies :
          /\ results' = AfterResponse(idx, CurrentRecord, body).results
          /\ log' = AfterResponse(idx, CurrentRecord, body).log
    /\ outstanding' = outstanding - 1
    /\ idx' = NextRecord(idx)
    /\ pc' = "loop"
    /\ UNCHANGED <<prompts_json, prompts, saved, writes, exit_code>>
    /\ UNCHANGED hcVars
    /\ UNCHANGED aVars

(* the loop is over: with no results main warns and returns 0, otherwise  *)
(* it calls save_results (the results directory exists since import)       *)
MainFinish ==
    /\ pc = "loop"
    /\ idx > Len(prompts)
    /\ IF results # <<>>
         THEN pc' = "save_json" /\ exit_code' = exit_code
         ELSE pc' = "done" /\ exit_code' = 0
    /\ UNCHANGED <<prompts_json, prompts, idx, results, log, outstanding, saved, writes>>
    /\ UNCHANGED hcVars
    /\ UNCHANGED aVars

AfterWrite_skip(next, ok) == IF ok THEN next ELSE "save_summary"

(* where save_results goes on after a write: its except clause only logs   *)
(* and sets the path to None                                               *)
AfterWrite(next, ok) == next

(* one try block of save_results: the write of artifact number k succeeds *)
(* or raises                                                               *)
WriteArtifact(k, file, ok) ==
    /\ writes' = Append(writes, [file |-> file, ok |-> ok])
    /\ saved' = [saved EXCEPT ![k] = ok]

(* save_results: json.dump into results_<timestamp>.json *)
SaveJson ==
    /\ pc = "save_json"
    /\ \E ok \in BOOLEAN :
          /\ WriteArtifact(1, "json", ok)
          /\ pc' = AfterWrite("save_txt", ok)
    /\ UNCHANGED <<prompts_json, prompts, idx, results, log, outstanding, exit_code>>
    /\ UNCHANGED hcVars
    /\ UNCHANGED aVars

(* save_results: the transcript results_<timestamp>.txt *)
SaveTxt ==
    /\ pc = "save_txt"
    /\ \E ok \in BOOLEAN :
          /\ WriteArtifact(2, "txt", ok)
          /\ pc' = AfterWrite("save_summary", ok)
    /\ UNCHANGED <<prompts_json, prompts, idx, results, log, outstanding, exit_code>>
    /\ UNCHANGED hcVars
    /\ UNCHANGED aVars

(* save_results: summary_<timestamp>.md, then the three paths are returned *)
(* and main logs the counts and returns 0                                  *)
SaveSummary ==
    /\ pc = "save_summary"
    /\ \E ok \in BOOLEAN : WriteArtifact(3, "summary", ok)
    /\ pc' = "done"
    /\ exit_code' = 0
    /\ UNCHANGED <<prompts_json, prompts, idx, results, log, outstanding>>
    /\ UNCHANGED hcVars
    /\ UNCHANGED aVars

InitB ==
    /\ pc = "start"
    /\ prompts_json \in Docs \cup {MissingEnv}
    /\ prompts = <<>>
    /\ idx = 0
    /\ results = <<>>
    /\ log = <<>>
    /\ outstanding = 0
    /\ saved = NoSaved
    /\ writes = <<>>
    /\ exit_code = -1
    /\ max_retries = 0
    /\ FreshHealthCheck
    /\ IdleA

NextB ==
    \/ MainNoJson
    \/ MainLoadRaises
    \/ MainLoad
    \/ HcReady
    \/ HcUndecodable
    \/ HcNot200
    \/ HcConnectionError
    \/ HcOtherException
    \/ HcExhausted
    \/ ClientConstructed
    \/ LoopSkip
    \/ LoopConfigError
    \/ SendGenerate
    \/ GenerateRaises
    \/ GenerateReturns
    \/ MainFinish
    \/ SaveJson
    \/ SaveTxt
    \/ SaveSummary

SpecB == InitB /\ [][NextB]_vars

----------------------------------------------------------------------------
(* Program A: cloudflare_tunnel.py *)

(* One line of the create command's stdout: whether it contains            *)
(* 'Created tunnel', whether it contains 'with id', and the first word     *)
(* after 'with id' (0: nothing follows).                                   *)
Line(c, w, tok) == [created |-> c, withid |-> w, token |-> tok]

Lines ==
    { Line(FALSE, FALSE, 0), Line(TRUE, FALSE, 0), Line(FALSE, TRUE, 1),
      Line(TRUE, TRUE, 1), Line(TRUE, TRUE, 2), Line(TRUE, TRUE, 0) }

Stdouts == SeqsUpTo(Lines, MaxLines)

(* create_tunnel's scan of result.stdout: the identifier it returns (0: None). *)
(* parts[1].strip().split()[0] raises on a line that ends at 'with id'; the    *)
(* method's except clause turns that into None.                                *)
RECURSIVE ExtractTunnelId(_)
ExtractTunnelId(out) ==
    IF out = <<>> THEN 0
    ELSE IF Head(out).created /\ Head(out).withid THEN Head(out).token
    ELSE ExtractTunnelId(Tail(out))

(* manager.cleanup_tunnel(tunnel_id); its result is not used *)
cleanup_tunnel(id) == a_cleanups' = Append(a_cleanups, id)

ReturnA(code) ==
    /\ a_exit' = code
    /\ a_pc' = "done"

(* if not cf_token: return 1 *)
A_NoToken ==
    /\ a_pc = "start"
    /\ ~ a_env.token
    /\ ReturnA(1)
    /\ UNCHANGED <<a_env, a_created, a_tunnel_id, a_process, a_url, a_files, a_cleanups>>
    /\ UNCHANGED <<bVars, hcVars>>

(* install_cloudflared: the binary is on PATH, already or installed now    *)
(* (True), or the install command fails or raises (False) *)
A_Install ==
    /\ a_pc = "start"
    /\ a_env.token
    /\ \E ok \in BOOLEAN :
          IF ok THEN a_files' = a_files \cup {"cloudflared"} /\ a_pc' = "create" /\ a_exit' = a_exit
                ELSE a_files' = a_files /\ ReturnA(1)
    /\ UNCHANGED <<a_env, a_created, a_tunnel_id, a_process, a_url, a_cleanups>>
    /\ UNCHANGED <<bVars, hcVars>>

(* create_tunnel: mkdir raises or the create command fails; nothing is created *)
A_CreateFails ==
    /\ a_pc = "create"
    /\ ReturnA(1)
    /\ UNCHANGED <<a_env, a_created, a_tunnel_id, a_process, a_url, a_files, a_cleanups>>
    /\ UNCHANGED <<bVars, hcVars>>

(* create_tunnel: the create command succeeds and prints `out` *)
A_Create ==
    /\ a_pc = "create"
    /\ \E out \in Stdouts :
          /\ a_env' = [a_env EXCEPT !.stdout = out]
          /\ a_created' = a_created + 1
          /\ a_tunnel_id' = ExtractTunnelId(out)
          /\ IF ExtractTunnelId(out) = 0
               THEN ReturnA(1)
               ELSE a_pc' = "configure" /\ a_exit' = a_exit
    /\ UNCHANGED <<a_process, a_url, a_files, a_cleanups>>
    /\ UNCHANGED <<bVars, hcVars>>

(* configure_tunnel: the config file is written, or writing it raises *)
A_Configure ==
    /\ a_pc = "configure"
    /\ \E ok \in BOOLEAN :
          IF ok
            THEN /\ a_files' = a_files \cup {"config"}
                 /\ a_pc' = "run"
                 /\ UNCHANGED <<a_cleanups, a_exit>>
            ELSE /\ cleanup_tunnel(a_tunnel_id)
                 /\ ReturnA(1)
                 /\ UNCHANGED a_files
    /\ UNCHANGED <<a_env, a_created, a_tunnel_id, a_process, a_url>>
    /\ UNCHANGED <<bVars, hcVars>>

StillRunning_any(p) == p # "none"

(* if process.poll() is None: the process has not exited *)
StillRunning(p) == p = "alive"

(* run_tunnel: Popen raises ("none"), or after the 5 s settle period the   *)
(* process is still running ("alive") or has exited ("exited") *)
A_Run ==
    /\ a_pc = "run"
    /\ \E p \in {"none", "alive", "exited"} :
          /\ a_process' = p
          /\ IF StillRunning(p)
               THEN /\ a_pc' = "url"
                    /\ UNCHANGED <<a_cleanups, a_exit>>
               ELSE /\ cleanup_tunnel(a_tunnel_id)
                    /\ ReturnA(1)
    /\ UNCHANGED <<a_env, a_created, a_tunnel_id, a_url, a_files>>
    /\ UNCHANGED <<bVars, hcVars>>

(* tunnel_url = manager.get_tunnel_url(tunnel_id): a URL, or None when the *)
(* info command fails, raises or prints no matching line *)
A_GetUrl ==
    /\ a_pc = "url"
    /\ \E found \in BOOLEAN : a_url' = found
    /\ a_pc' = "publish"
    /\ UNCHANGED <<a_env, a_created, a_tunnel_id, a_process, a_files, a_cleanups, a_exit>>
    /\ UNCHANGED <<bVars, hcVars>>

PublishesUrl_always(url) == TRUE

(* if tunnel_url: *)
PublishesUrl(url) == url

(* if tunnel_url: write tunnel_url.txt and, if set, append to GITHUB_OUTPUT; *)
(* an exception in either write reaches main's except clause *)
A_Publish ==
    /\ a_pc = "publish"
    /\ IF ~ PublishesUrl(a_url)
         THEN a_files' = a_files /\ a_pc' = "pid" /\ a_exit' = a_exit
         ELSE \E urlOk \in BOOLEAN, outOk \in BOOLEAN :
                IF ~ urlOk
                  THEN a_files' = a_files /\ ReturnA(1)
                ELSE IF ~ a_env.github_output
                  THEN a_files' = a_files \cup {"url"} /\ a_pc' = "pid" /\ a_exit' = a_exit
                ELSE IF ~ outOk
                  THEN a_files' = a_files \cup {"url"} /\ ReturnA(1)
                ELSE a_files' = a_files \cup {"url", "github_output"} /\ a_pc' = "pid" /\ a_exit' = a_exit
    /\ UNCHANGED <<a_env, a_created, a_tunnel_id, a_process, a_url, a_cleanups>>
    /\ UNCHANGED <<bVars, hcVars>>

(* time.sleep(10); write tunnel_process.pid; return 0 *)
A_WritePid ==
    /\ a_pc = "pid"
    /\ \E ok \in BOOLEAN :
          IF ok THEN a_files' = a_files \cup {"pid"} /\ ReturnA(0)
                ELSE a_files' = a_files /\ ReturnA(1)
    /\ UNCHANGED <<a_env, a_created, a_tunnel_id, a_process, a_url, a_cleanups>>
    /\ UNCHANGED <<bVars, hcVars>>

InitA ==
    /\ a_pc = "start"
    /\ a_env \in [token : BOOLEAN, github_output : BOOLEAN, stdout : {<<>>}]
    /\ a_created = 0
    /\ a_tunnel_id = 0
    /\ a_process = "none"
    /\ a_url = FALSE
    /\ a_files = {}
    /\ a_cleanups = <<>>
    /\ a_exit = -1
    /\ pc = "idle"
    /\ IdleB
    /\ max_retries = 0
    /\ FreshHealthCheck

NextA ==
    \/ A_NoToken
    \/ A_Install
    \/ A_CreateFails
    \/ A_Create
    \/ A_Configure
    \/ A_Run
    \/ A_GetUrl
    \/ A_Publish
    \/ A_WritePid

SpecA == InitA /\ [][NextA]_vars

----------------------------------------------------------------------------
(* Observations used by the properties *)

IsRequest(e) == e.ev = "request"

RequestEvents == SelectSeq(log, IsRequest)

(* positions in the log of the request sent for record i *)
RequestsOf(i) == { p \in 1..Len(log) : log[p].ev = "request" /\ log[p].i = i }

RECURSIVE KeptFrom(_)
KeptFrom(k) ==
    IF k > Len(prompts) THEN <<>>
    ELSE IF IsSkipped(prompts[k]) THEN KeptFrom(k + 1)
    ELSE <<k>> \o KeptFrom(k + 1)

(* the input positions of the records that are not skipped, in input order *)
KeptIndices == KeptFrom(1)

ResultIndices == [k \in 1..Len(results) |-> results[k].i]

(* the for loop of main has run to its end *)
LoopEnded ==
    \/ pc = "loop" /\ idx > Len(prompts)
    \/ pc \in {"save_json", "save_txt", "save_summary"}
    \/ pc = "done" /\ exit_code = 0

(* load_prompts_from_json has returned a list to main *)
LoadReturned ==
    \/ pc \in {"health", "hc_returned", "loop", "in_flight", "save_json", "save_txt", "save_summary"}
    \/ pc = "done" /\ exit_code = 0

(* load_prompts_from_json has raised and main has returned 1 *)
LoadRaised == pc = "done" /\ exit_code = 1 /\ prompts_json # MissingEnv

(* the generate request of record i raised *)
RequestFailed(i) == \E k \in 1..Len(results) : results[k].i = i /\ results[k].error \in GenerateErrors

(* the nearest record before i that was not skipped (0: none) *)
PrevProcessed(i) ==
    LET earlier == { j \in 1..(i - 1) : ~ IsSkipped(prompts[j]) }
    IN  IF earlier = {} THEN 0 ELSE CHOOSE j \in earlier : \A h \in earlier : h <= j

(* the record's inter-record delay is a number greater than 0 *)
DelayDue(rec) ==
    /\ rec.config.isdict
    /\ "delay" \in rec.config.keys => rec.config.delay_isnum
    /\ ResolvedDelay(rec.config) > 0

----------------------------------------------------------------------------
(* C1: when the batch loop has ended, results holds exactly one entry for  *)
(* each record whose prompt is non-empty after trimming, none for skipped  *)
(* records, in input order, whatever each step of a record's processing    *)
(* did.                                                                    *)
C1_OneEntryPerRecord == LoopEnded => ResultIndices = KeptIndices

(* C2: when health_check has returned False the run is aborted: no         *)
(* generate request is sent and main returns 1.                            *)
C2_AbortWhenUnhealthy ==
    hc_result = "false" =>
        /\ RequestEvents = <<>>
        /\ pc = "done" => exit_code = 1

(* C3: in a batch of N non-empty records where exactly the request of      *)
(* record k fails and every other request succeeds, the requests after k   *)
(* are still sent, results has N entries, entry k is a failure with a      *)
(* non-empty error and every other entry is a success.                     *)
C3_FailureIsolated ==
    \A k \in 1..Len(prompts) :
        ( /\ LoopEnded
          /\ \A i \in 1..Len(prompts) : ~ IsSkipped(prompts[i]) /\ RequestsOf(i) # {}
          /\ \A i \in 1..Len(prompts) : RequestFailed(i) <=> i = k )
        =>
        /\ Len(results) = Len(prompts)
        /\ \A i \in 1..Len(results) :
              IF i = k THEN ~ results[i].success /\ results[i].error # ""
                       ELSE results[i].success

(* C4: a run of Program A that has created a tunnel and returns 1 has      *)
(* called cleanup_tunnel before returning.                                 *)
C4_CleanupOnFailure == (a_exit = 1 /\ a_created > 0) => a_cleanups # <<>>

(* C5 as stated: at most M status requests; the first status-200 answer,   *)
(* on attempt k, makes health_check return True after exactly k requests;  *)
(* without a status-200 answer it returns False.                           *)
C5_ReadyOnFirst200 ==
    /\ hc_requests <= max_retries
    /\ hc_last \in Status200 => hc_result = "true" /\ hc_requests = hc_i + 1
    /\ hc_result = "true" => hc_last \in Status200
    /\ hc_result = "false" => hc_last \notin Status200

(* C5 amended: at most M status requests; the first status-200 answer      *)
(* whose body decodes, on attempt k, makes health_check return True after  *)
(* exactly k requests; a status-200 answer whose body does not decode is   *)
(* retried like any other failed attempt; health_check returns False       *)
(* only after an attempt that was not such an answer.                      *)
C5_ReadyOnFirstDecoded200 ==
    /\ hc_requests <= max_retries
    /\ hc_last = "ok" => hc_result = "true" /\ hc_requests = hc_i + 1
    /\ hc_result = "true" => hc_last = "ok"
    /\ hc_result = "false" => hc_last # "ok" /\ hc_requests = max_retries
    /\ hc_last = "undecodable" /\ hc_result = "running" => hc_i = hc_requests

C5_Witness ==
    /\ hc_result = "true"
    /\ hc_requests = 3
    /\ max_retries >= 3

(* C6: before the request of a record is sent, the inter-record delay of   *)
(* the nearest processed record before it has been slept, whether that     *)
(* record succeeded or failed, unless that delay is <= 0.                  *)
C6_DelayAfterEveryRecord ==
    \A p \in 1..Len(log) :
        log[p].ev = "request" =>
            LET j == PrevProcessed(log[p].i)
            IN  (j # 0 /\ DelayDue(prompts[j])) =>
                    \E q \in 1..(p - 1) :
                        log[q] = SleepEvent(j, ResolvedDelay(prompts[j].config))

(* the parts of C7 that do not depend on the record: at most one request   *)
(* outstanding, requests sent in input order, never two for one record,    *)
(* none for a skipped record                                               *)
SequentialRequests ==
    /\ outstanding <= 1
    /\ \A p \in 1..Len(log), q \in 1..Len(log) :
          (p < q /\ log[p].ev = "request" /\ log[q].ev = "request") => log[p].i < log[q].i
    /\ \A i \in 1..Len(prompts) : IsSkipped(prompts[i]) => RequestsOf(i) = {}

(* C7 as stated: requests go out in input order, one outstanding at a      *)
(* time, and every non-empty record causes exactly one request.            *)
C7_OneRequestPerRecord ==
    /\ SequentialRequests
    /\ LoopEnded =>
          \A i \in 1..Len(prompts) :
              ~ IsSkipped(prompts[i]) => Cardinality(RequestsOf(i)) = 1

(* C7 amended: requests go out in input order, one outstanding at a time,  *)
(* never two for one record; a record with a non-empty prompt causes       *)
(* exactly one request when its config is an object (or absent) and none   *)
(* when its config is not an object; an empty record causes none.          *)
C7_OneRequestPerWellFormedRecord ==
    /\ SequentialRequests
    /\ LoopEnded =>
          \A i \in 1..Len(prompts) :
              ~ IsSkipped(prompts[i]) =>
                  Cardinality(RequestsOf(i)) = IF prompts[i].config.isdict THEN 1 ELSE 0

(* two records, the first request failed, the second was still sent once *)
C7_Witness ==
    /\ LoopEnded
    /\ Len(prompts) = 2
    /\ RequestFailed(1)
    /\ Cardinality(RequestsOf(1)) = 1
    /\ Cardinality(RequestsOf(2)) = 1

(* C8: the document is classified by the priority list > object with       *)
(* "prompts" > object with "prompt" > object with prompt_* keys > string;  *)
(* an object with both "prompts" and "prompt" yields its "prompts" list;   *)
(* a number, boolean or null raises.                                       *)
C8_ShapePriority ==
    LET d == prompts_json
    IN  (pc # "start" /\ d # MissingEnv) =>
          /\ d.type = "list" => LoadReturned /\ prompts = d.items
          /\ (d.type = "dict" /\ d.has_prompts) => LoadReturned /\ prompts = d.items
          /\ (d.type = "dict" /\ ~ d.has_prompts /\ d.prompt # AbsentText) =>
                /\ LoadReturned
                /\ Len(prompts) = 1
                /\ prompts[1].prompt = d.prompt
          /\ (d.type = "dict" /\ ~ d.has_prompts /\ d.prompt = AbsentText) =>
                /\ LoadReturned
                /\ Len(prompts) = Len(d.pvalues)
                /\ \A k \in 1..Len(prompts) :
                      prompts[k].prompt = d.pvalues[k] /\ prompts[k].id = IdKey(k)
          /\ d.type = "str" =>
                /\ LoadReturned
                /\ Len(prompts) = 1
                /\ prompts[1].prompt = d.text /\ prompts[1].id = IdInt(1)
          /\ d.type \in {"num", "bool", "null"} => LoadRaised

(* an object with both keys has been loaded as its one-element "prompts" list *)
C8_Witness ==
    /\ pc = "health"
    /\ prompts_json.type = "dict"
    /\ prompts_json.has_prompts
    /\ prompts_json.prompt # AbsentText
    /\ Len(prompts_json.items) = 1
    /\ prompts = prompts_json.items

(* C9: the sequence returned by load_prompts_from_json holds only the      *)
(* entries whose prompt text is non-empty after trimming: its length is    *)
(* the number of such entries.                                             *)
C9_LoaderDropsEmpty ==
    LoadReturned =>
        Len(prompts) = Cardinality({ k \in 1..Len(prompts) : ~ IsSkipped(prompts[k]) })

(* C10: the parameters of every generate request are the model name, the   *)
(* prompt text, the resolved temperature and max-token count, and every    *)
(* other key of the record's config except the reserved keys.              *)
C10_PayloadParameters ==
    \A p \in 1..Len(log) :
        log[p].ev = "request" =>
            LET cfg == prompts[log[p].i].config
                sent == log[p].payload
            IN  /\ sent.model = ModelTag
                /\ sent.prompt = PromptText(prompts[log[p].i])
                /\ sent.temperature = ResolvedTemperature(cfg)
                /\ sent.max_tokens = ResolvedMaxTokens(cfg)
                /\ sent.extra = cfg.keys \ ReservedKeys

(* C11: whenever a failed attempt is followed by another status request,   *)
(* a wait is slept in between, and it is strictly longer than the wait     *)
(* slept after the attempt before (so it is never zero and never the same  *)
(* twice), whatever way the attempt failed.                                *)
C11_WaitsStrictlyIncrease ==
    [][ (pc = "health" /\ hc_i' = hc_i + 1 /\ hc_i' < max_retries)
            => hc_wait' > hc_wait ]_vars

ArtifactOrder == <<"json", "txt", "summary">>

(* C12: save_results attempts the JSON, text and summary writes once each, *)
(* in that order, whether or not an earlier one failed; a failed write     *)
(* makes exactly its own returned path None; no failure leaves             *)
(* save_results early or changes main's exit code 0.                       *)
C12_IndependentWrites ==
    /\ Len(writes) <= 3
    /\ \A k \in 1..Len(writes) : writes[k].file = ArtifactOrder[k] /\ saved[k] = writes[k].ok
    /\ pc = "save_txt" => Len(writes) = 1
    /\ pc = "save_summary" => Len(writes) = 2
    /\ (pc = "done" /\ results # <<>>) => Len(writes) = 3 /\ exit_code = 0

(* the JSON write failed, the transcript and the summary were still written *)
C12_Witness ==
    /\ pc = "done"
    /\ Len(writes) = 3
    /\ ~ writes[1].ok
    /\ saved = <<FALSE, TRUE, TRUE>>

(* install, creation, configuration and launch succeeded, URL resolution   *)
(* found no URL, and main has returned                                     *)
ReturnedWithoutUrl == a_process = "alive" /\ ~ a_url /\ a_pc = "done"

C14_CleanupOnlyOnFailure ==
    /\ Len(a_cleanups) <= 1
    /\ a_cleanups # <<>> => a_tunnel_id # 0 /\ a_cleanups = <<a_tunnel_id>> /\ a_exit = 1
    /\ a_exit = 0 => a_cleanups = <<>> /\ a_process = "alive" /\ "pid" \in a_files

(* the launched process exited early: one cleanup, with the extracted id *)
C14_Witness ==
    /\ a_exit = 1
    /\ a_process = "exited"
    /\ a_tunnel_id = 2
    /\ a_cleanups = <<2>>

====
